---- MODULE Spec2Model ----
(***************************************************************************)
(* Model of src/App.js: the water-monitoring dashboard component.          *)
(*                                                                         *)
(* State: the five useState hooks, the effect's interval timer, the fetch  *)
(* requests started so far, a logical clock, the values derived on render, *)
(* and which Date string parser the JavaScript engine of the build has.    *)
(*                                                                         *)
(* A fetch completion is one atomic step: the callbacks that touch state   *)
(* (.then(data) / .catch, then .finally) are microtasks of a single        *)
(* macrotask and write disjoint or identical values, and the first .then   *)
(* (status check) writes no state at all.                                  *)
(***************************************************************************)
EXTENDS Integers, Sequences, FiniteSets, TLC

VARIABLES leituras, loading, initialLoading, error, lastRefresh,
          phase, interval, requests, now, view, dateParser

vars == <<leituras, loading, initialLoading, error, lastRefresh,
          phase, interval, requests, now, view, dateParser>>

\* ------------------------------------------------------------------ bounds
MaxAttempts == 3    \* fetch attempts started in one behaviour
MaxPollLen == 1     \* length of an array body in the poll cycle
MaxLen == 3         \* length of a reading list over the full sample alphabet
MaxChartLen == 7    \* length of a reading list over the two-reading alphabet

\* ------------------------------------------------------- program constants
ChartWindow == 6
FractionDigits == 2

NoError == "null"
LoadError == "Falha ao carregar os dados."

\* -------------------------------------------------------------- timestamps
\* A timestamp value of a record.  kind "absent" is a missing/empty value,
\* "iso" a string new Date() parses directly (p1 = month, p2 = day),
\* "slash" the text "p1/p2/2024 hh:00:00", "garbage" any other text.
Ts(kind, p1, p2, h) == [kind |-> kind, p1 |-> p1, p2 |-> p2, h |-> h]
TsAbsent == Ts("absent", 0, 0, 0)
TsGarbage == Ts("garbage", 0, 0, 0)

InvalidDate == [valid |-> FALSE, time |-> 0]

\* new Date(year, monthIndex, day, hours, ...) within one year, in hours.
MakeDate(monthIndex, day, hours) ==
    [valid |-> TRUE, time |-> (monthIndex * 31 + day) * 24 + hours]

\* new Date(string).  ISO text parses everywhere; "p1/p2/yyyy" text is
\* rejected by an ISO-only parser, and read as month/day/year by a legacy
\* parser when p1 can be a month.
DateFromString(ts) ==
    IF ts.kind = "iso" THEN MakeDate(ts.p1 - 1, ts.p2, ts.h)
    ELSE IF ts.kind = "slash" /\ dateParser = "legacy" /\ ts.p1 \in 1..12
         THEN MakeDate(ts.p1 - 1, ts.p2, ts.h)
    ELSE InvalidDate

\* timestamp.match(/(\d{2})\/(\d{2})\/(\d{4})\s(\d{2}):(\d{2}):(\d{2})/)
MatchesPattern(ts) == ts.kind = "slash"

parseTimestamp(ts) ==
    IF ts.kind = "absent" THEN InvalidDate
    ELSE LET date == DateFromString(ts) IN
         IF date.valid THEN date
         ELSE IF MatchesPattern(ts) THEN MakeDate(ts.p2 - 1, ts.p1, ts.h)
         ELSE InvalidDate

\* Date.prototype.toLocaleTimeString: the time of day, or "Invalid Date".
toLocaleTimeString(date) ==
    IF date.valid THEN [text |-> "time", hour |-> date.time % 24]
    ELSE [text |-> "Invalid Date", hour |-> 0]

\* ---------------------------------------------------------------- readings
Reading(id, ts, v) == [id |-> id, timestamp |-> ts, leitura |-> v]

\* ---------------------------------------------------------- latest reading
\* Mutant: the comparison reversed, so the older of two valid readings wins.
LatestStepOldest(latest, current) ==
    LET latestDate == parseTimestamp(latest.timestamp)
        currentDate == parseTimestamp(current.timestamp)
    IN  IF ~latestDate.valid THEN current
        ELSE IF ~currentDate.valid THEN latest
        ELSE IF currentDate.time < latestDate.time THEN current ELSE latest

\* Mutant: the two validity tests swapped, so an invalid candidate never
\* replaces the running latest, not even an invalid one.
LatestStepKeepsSeed(latest, current) ==
    LET latestDate == parseTimestamp(latest.timestamp)
        currentDate == parseTimestamp(current.timestamp)
    IN  IF ~currentDate.valid THEN latest
        ELSE IF ~latestDate.valid THEN current
        ELSE IF currentDate.time > latestDate.time THEN current ELSE latest

LatestStep(latest, current) ==
    LET latestDate == parseTimestamp(latest.timestamp)
        currentDate == parseTimestamp(current.timestamp)
    IN  IF ~latestDate.valid THEN current
        ELSE IF ~currentDate.valid THEN latest
        ELSE IF currentDate.time > latestDate.time THEN current ELSE latest

RECURSIVE ReduceLatest(_, _)
ReduceLatest(latest, rest) ==
    IF rest = <<>> THEN latest
    ELSE ReduceLatest(LatestStep(latest, Head(rest)), Tail(rest))

\* null is <<>>, a reading r is <<r>>.
latestReading(list) ==
    IF Len(list) = 0 THEN <<>>
    ELSE <<ReduceLatest(Head(list), Tail(list))>>

\* ----------------------------------------------------------------- average
NotAvailable == <<"N", "/", "A">>

DigitChar(d) == <<"0", "1", "2", "3", "4", "5", "6", "7", "8", "9">>[d + 1]

RECURSIVE Digits(_)
Digits(n) == IF n < 10 THEN <<DigitChar(n)>>
             ELSE Digits(n \div 10) \o <<DigitChar(n % 10)>>

RECURSIVE Pow10(_)
Pow10(f) == IF f = 0 THEN 1 ELSE 10 * Pow10(f - 1)

RECURSIVE Zeros(_)
Zeros(k) == IF k <= 0 THEN <<>> ELSE <<"0">> \o Zeros(k - 1)

\* Mutant: the digits beyond the f-th are cut off instead of rounded.
toFixedTruncating(num, den, f) ==
    LET s == IF num < 0 THEN <<"-">> ELSE <<>>
        x == IF num < 0 THEN -num ELSE num
        n == (x * Pow10(f)) \div den
        m == Digits(n)
        padded == IF Len(m) <= f THEN Zeros(f + 1 - Len(m)) \o m ELSE m
        k == Len(padded)
    IN  s \o SubSeq(padded, 1, k - f) \o <<".">> \o SubSeq(padded, k - f + 1, k)

\* Number.prototype.toFixed(f) of the number num/den (den > 0): the sign,
\* then the integer n with n / 10^f nearest to |x| (the larger n on a tie),
\* written with at least f + 1 digits and a point before the last f.
toFixed(num, den, f) ==
    LET s == IF num < 0 THEN <<"-">> ELSE <<>>
        x == IF num < 0 THEN -num ELSE num
        n == (2 * x * Pow10(f) + den) \div (2 * den)
        m == Digits(n)
        padded == IF Len(m) <= f THEN Zeros(f + 1 - Len(m)) \o m ELSE m
        k == Len(padded)
    IN  s \o SubSeq(padded, 1, k - f) \o <<".">> \o SubSeq(padded, k - f + 1, k)

\* leituras.reduce((acc, curr) => acc + curr.leitura, 0)
RECURSIVE SumLeitura(_, _)
SumLeitura(acc, rest) ==
    IF rest = <<>> THEN acc
    ELSE SumLeitura(acc + Head(rest).leitura, Tail(rest))

averageReading(list) ==
    IF Len(list) = 0 THEN NotAvailable
    ELSE toFixed(SumLeitura(0, list), Len(list), FractionDigits)

\* ------------------------------------------------------------------- chart
\* Mutant: slice(0, k), the first k elements.
SliceFirst(list, k) ==
    SubSeq(list, 1, IF Len(list) > k THEN k ELSE Len(list))

\* Array.prototype.slice(-k): the last k elements, or all when fewer.
SliceLast(list, k) ==
    SubSeq(list, (IF Len(list) > k THEN Len(list) - k ELSE 0) + 1, Len(list))

ChartLabels(list) ==
    LET w == SliceLast(list, ChartWindow) IN
    [i \in 1..Len(w) |-> toLocaleTimeString(parseTimestamp(w[i].timestamp))]

ChartValues(list) ==
    LET w == SliceLast(list, ChartWindow) IN
    [i \in 1..Len(w) |-> w[i].leitura]

chartData(list) == [labels |-> ChartLabels(list), data |-> ChartValues(list)]

\* ----------------------------------------------------------------- history
\* (a, b) => parseTimestamp(b.timestamp) - parseTimestamp(a.timestamp):
\* Date - Date is the difference of the time values, NaN if either is invalid.
Comparator(a, b) ==
    LET da == parseTimestamp(a.timestamp)
        db == parseTimestamp(b.timestamp)
    IN  IF da.valid /\ db.valid THEN [nan |-> FALSE, val |-> db.time - da.time]
        ELSE [nan |-> TRUE, val |-> 0]

\* SortCompare of Array.prototype.sort: a NaN from the comparator counts as +0.
SortCompare(a, b) ==
    LET v == Comparator(a, b) IN IF v.nan THEN 0 ELSE v.val

\* Whether the comparator is a consistent comparator for the elements of list
\* (ECMAScript: the relations <, = and > it induces are transitive and < is
\* the converse of >).
ConsistentComparator(list) ==
    LET S == {list[i] : i \in 1..Len(list)} IN
    /\ \A a \in S : SortCompare(a, a) = 0
    /\ \A a, b \in S : (SortCompare(a, b) < 0) <=> (SortCompare(b, a) > 0)
    /\ \A a, b, c \in S :
        /\ (SortCompare(a, b) = 0 /\ SortCompare(b, c) = 0) => SortCompare(a, c) = 0
        /\ (SortCompare(a, b) < 0 /\ SortCompare(b, c) < 0) => SortCompare(a, c) < 0
        /\ (SortCompare(a, b) > 0 /\ SortCompare(b, c) > 0) => SortCompare(a, c) > 0

\* x put into the sorted sequence after every element not ordered after it.
RECURSIVE InsertStable(_, _)
InsertStable(sorted, x) ==
    IF sorted = <<>> THEN <<x>>
    ELSE LET last == sorted[Len(sorted)] IN
         IF SortCompare(last, x) > 0
         THEN InsertStable(SubSeq(sorted, 1, Len(sorted) - 1), x) \o <<last>>
         ELSE sorted \o <<x>>

RECURSIVE StableSort(_, _)
StableSort(sorted, rest) ==
    IF rest = <<>> THEN sorted
    ELSE StableSort(InsertStable(sorted, Head(rest)), Tail(rest))

PermutationsOf(list) ==
    LET n == Len(list)
        P == {p \in [1..n -> 1..n] : \A i, j \in 1..n : p[i] = p[j] => i = j}
    IN  {[i \in 1..n |-> list[p[i]]] : p \in P}

\* [...leituras].sort(comparator): the stable sorted copy when the comparator
\* is consistent on the list; otherwise the order is implementation-defined
\* and any arrangement of the elements may come out.
HistoryOrders(list) ==
    IF ConsistentComparator(list) THEN {StableSort(<<>>, list)}
    ELSE PermutationsOf(list)

\* ------------------------------------------------------------------ render
\* The values the component derives from leituras on a render.
Render(list) ==
    {[latest |-> latestReading(list),
      average |-> averageReading(list),
      chart |-> chartData(list),
      history |-> h] : h \in HistoryOrders(list)}

\* ------------------------------------------------------------------ inputs
\* The sample records (timestamp and leitura, the id is given by position):
\* timestamps missing, unparsable, two ISO texts, and two "DD/MM/YYYY
\* HH:MM:SS" texts, one of which a legacy parser reads directly as month/day
\* and which names the instant of the first ISO text when read as day/month.
SampleRecords ==
    {<<TsAbsent, 2>>, <<TsGarbage, 4>>, <<Ts("iso", 12, 5, 10), -1>>,
     <<Ts("iso", 5, 12, 9), 0>>, <<Ts("slash", 5, 12, 10), 4>>,
     <<Ts("slash", 25, 12, 14), 1>>}

ChartRecords == {<<TsGarbage, 4>>, <<Ts("slash", 25, 12, 14), 1>>}

PollRecords == {<<Ts("iso", 12, 5, 10), 4>>}

\* The JSON arrays of up to n records over an alphabet, ids 1, 2, ... in order.
ArraysOver(records, n) ==
    UNION {{[i \in 1..k |-> Reading(i, r[i][1], r[i][2])] : r \in [1..k -> records]}
           : k \in 0..n}

\* What a request can end with: fetch rejects, the status is not OK, the body
\* is not JSON, or the body is JSON (an array of readings, or something else).
Response(kind, isArray, items) ==
    [kind |-> kind, isArray |-> isArray, items |-> items]

FailureResponses ==
    {Response(k, FALSE, <<>>) : k \in {"network_error", "http_error", "bad_json"}}

NonArrayResponse == Response("ok_json", FALSE, <<>>)

ArrayResponses(arrays) == {Response("ok_json", TRUE, a) : a \in arrays}

PollResponses ==
    FailureResponses \cup {NonArrayResponse}
        \cup ArrayResponses(ArraysOver(PollRecords, MaxPollLen))

ProjectionResponses ==
    ArrayResponses(ArraysOver(SampleRecords, MaxLen)
                       \cup ArraysOver(ChartRecords, MaxChartLen))

\* ------------------------------------------------------------------- state
\* A request: its state, the JSON body the server answered with (NoBody until
\* then, and when there is none), and whether it ended after teardown.
NoBody == Response("none", FALSE, <<>>)
Pending == [st |-> "pending", body |-> NoBody, late |-> FALSE]

Init ==
    /\ leituras = <<>>
    /\ loading = FALSE
    /\ initialLoading = TRUE
    /\ error = NoError
    /\ lastRefresh = 0
    /\ phase = "created"
    /\ interval = "none"
    /\ requests = <<>>
    /\ now = 0
    /\ view \in Render(<<>>)
    /\ dateParser \in {"iso_only", "legacy"}

\* Mutant: fetchData returns at once while a request is in flight.
FetchDataGuarded ==
    IF \E i \in 1..Len(requests) : requests[i].st = "pending"
    THEN UNCHANGED <<loading, requests>>
    ELSE /\ loading' = TRUE
         /\ requests' = Append(requests, Pending)

\* fetchData up to the request being sent: setLoading(true); fetch(url).
FetchData ==
    /\ loading' = TRUE
    /\ requests' = Append(requests, Pending)

\* The effect: fetchData(); setInterval(fetchData, 3000).
Mount ==
    /\ phase = "created"
    /\ phase' = "mounted"
    /\ FetchData
    /\ interval' = "active"
    /\ view' \in Render(leituras)
    /\ UNCHANGED <<leituras, initialLoading, error, lastRefresh, now, dateParser>>

\* The interval fires: fetchData().
Tick ==
    /\ interval = "active"
    /\ Len(requests) < MaxAttempts
    /\ now' = now + 1
    /\ FetchData
    /\ view' \in Render(leituras)
    /\ UNCHANGED <<leituras, initialLoading, error, lastRefresh,
                   phase, interval, dateParser>>

\* Mutant: a body that is not an array is rejected like a failed request.
SucceedsArrayOnly(resp) == resp.kind = "ok_json" /\ resp.isArray

\* .then((response) => ...): throws unless response.ok, and response.json()
\* rejects on a body that is not JSON; a rejected fetch skips both thens.
Succeeds(resp) == resp.kind = "ok_json"

\* .then((data) => { setLeituras(...); setLastRefresh(new Date()); setError(null) })
OnData(resp) ==
    /\ leituras' = (IF resp.isArray THEN resp.items ELSE <<>>)
    /\ lastRefresh' = now
    /\ error' = NoError

\* Mutant: the failure handler also empties the reading list.
OnFailureClears ==
    /\ error' = LoadError
    /\ leituras' = <<>>
    /\ UNCHANGED lastRefresh

\* .catch(() => setError("Falha ao carregar os dados."))
OnFailure ==
    /\ error' = LoadError
    /\ UNCHANGED <<leituras, lastRefresh>>

\* .finally(() => { setLoading(false); setInitialLoading(false) })
OnFinally ==
    /\ loading' = FALSE
    /\ initialLoading' = FALSE

\* Request i ends with resp and its callbacks run.
Complete(i, resp) ==
    /\ i \in 1..Len(requests)
    /\ requests[i].st = "pending"
    /\ IF Succeeds(resp) THEN OnData(resp) ELSE OnFailure
    /\ OnFinally
    /\ requests' = [requests EXCEPT ![i] =
           [st |-> IF Succeeds(resp) THEN "ok" ELSE "failed",
            body |-> IF resp.kind = "ok_json" THEN resp ELSE NoBody,
            late |-> phase = "unmounted"]]
    /\ view' \in Render(leituras')
    /\ UNCHANGED <<phase, interval, now, dateParser>>

\* Mutant: the effect returns no cleanup, so the interval keeps running.
UnmountKeepsTimer ==
    /\ phase = "mounted"
    /\ phase' = "unmounted"
    /\ view' \in Render(leituras)
    /\ UNCHANGED <<leituras, loading, initialLoading, error, lastRefresh,
                   interval, requests, now, dateParser>>

\* The effect's cleanup: clearInterval(interval).
Unmount ==
    /\ phase = "mounted"
    /\ phase' = "unmounted"
    /\ interval' = "cleared"
    /\ view' \in Render(leituras)
    /\ UNCHANGED <<leituras, loading, initialLoading, error, lastRefresh,
                   requests, now, dateParser>>

Next ==
    \/ Mount
    \/ Tick
    \/ \E i \in 1..MaxAttempts, resp \in PollResponses : Complete(i, resp)
    \/ Unmount

Spec == Init /\ [][Next]_vars

\* The projections of one received array: the component is mounted with its
\* first request in flight, and that request ends with an array body.
ProjectionInit ==
    /\ leituras = <<>>
    /\ loading = TRUE
    /\ initialLoading = TRUE
    /\ error = NoError
    /\ lastRefresh = 0
    /\ phase = "mounted"
    /\ interval = "active"
    /\ requests = <<Pending>>
    /\ now = 0
    /\ view \in Render(<<>>)
    /\ dateParser \in {"iso_only", "legacy"}

ProjectionNext == \E resp \in ProjectionResponses : Complete(1, resp)

ProjectionSpec == ProjectionInit /\ [][ProjectionNext]_vars

\* ================================================================== claims
IsValid(r) == parseTimestamp(r.timestamp).valid
Instant(r) == parseTimestamp(r.timestamp).time
Indices(list) == 1..Len(list)
StartedLast == requests[Len(requests)]

\* Request i goes from pending to the given outcome in this step.
Ends(i, outcome) ==
    /\ requests[i].st = "pending"
    /\ requests'[i].st = outcome

\* C1: in every state of the poll cycle, once the most recently started
\* attempt has completed, the error is shown exactly when that attempt failed
\* (null after its success, the message after its failure).
C1_ErrorFollowsLastStarted ==
    requests # <<>> =>
        /\ StartedLast.st = "ok" => error = NoError
        /\ StartedLast.st = "failed" => error = LoadError

\* C2: for a non-empty list with at least one valid instant, the latest
\* reading is an element of the list with a valid instant that is greater
\* than or equal to the instant of every valid reading of the list.
C2_LatestIsGreatestValid ==
    (\E i \in Indices(leituras) : IsValid(leituras[i])) =>
        /\ Len(view.latest) = 1
        /\ \E k \in Indices(leituras) : view.latest[1] = leituras[k]
        /\ IsValid(view.latest[1])
        /\ \A i \in Indices(leituras) :
              IsValid(leituras[i]) => Instant(view.latest[1]) >= Instant(leituras[i])

\* An invalid seed, then the greater of two valid instants before the smaller:
\* the winner is neither the first nor the last element.
C2_Witness ==
    /\ Len(leituras) = 3
    /\ ~IsValid(leituras[1])
    /\ IsValid(leituras[2]) /\ IsValid(leituras[3])
    /\ Instant(leituras[2]) > Instant(leituras[3])
    /\ view.latest = <<leituras[2]>>

SortKey(r) == IF IsValid(r) THEN Instant(r) ELSE -1

\* C4: the history list is a permutation of the reading list that is
\* non-increasing by normalized instant, invalid instants ordered as the
\* smallest, for every list, mixed valid and invalid instants included.
C4_HistoryNonIncreasing ==
    /\ view.history \in PermutationsOf(leituras)
    /\ \A i \in 1..(Len(view.history) - 1) :
          SortKey(view.history[i]) >= SortKey(view.history[i + 1])

\* C5: a request that ends with an OK status and a JSON body that is not an
\* array empties the reading list, clears the error and counts as a success.
C5_NonArrayIsEmptySuccess ==
    [][\A i \in Indices(requests) :
          (requests[i].st = "pending" /\ requests'[i].st # "pending"
              /\ requests'[i].body = NonArrayResponse)
          => (leituras' = <<>> /\ error' = NoError /\ requests'[i].st = "ok")]_vars

\* Two requests, one ended with a non-empty array and one with a non-array
\* body, and the list is empty: the non-array body came last and replaced it.
C5_Witness ==
    /\ Len(requests) = 2
    /\ \E i, j \in {1, 2} :
          /\ requests[i].st = "ok" /\ requests[i].body = NonArrayResponse
          /\ requests[j].st = "ok" /\ requests[j].body.isArray
          /\ requests[j].body.items # <<>>
    /\ leituras = <<>>
    /\ error = NoError

Min(a, b) == IF a < b THEN a ELSE b

\* C6: for a list of length n the chart has min(n, 6) labels and min(n, 6)
\* values, and entry i of both comes from reading n - min(n, 6) + i.
C6_ChartIsTail ==
    LET n == Len(leituras)
        k == Min(n, 6)
    IN  /\ Len(view.chart.labels) = k
        /\ Len(view.chart.data) = k
        /\ \A i \in 1..k :
              /\ view.chart.data[i] = leituras[n - k + i].leitura
              /\ view.chart.labels[i] =
                     toLocaleTimeString(parseTimestamp(leituras[n - k + i].timestamp))

\* Seven readings, the first unlike the second: the window drops the first.
C6_Witness ==
    /\ Len(leituras) = 7
    /\ Len(view.chart.data) = 6
    /\ leituras[1].leitura # leituras[2].leitura
    /\ view.chart.data[1] = leituras[2].leitura

RECURSIVE Total(_, _)
Total(list, n) == IF n = 0 THEN 0 ELSE Total(list, n - 1) + list[n].leitura

CharValue(c) == CHOOSE d \in 0..9 : <<"0", "1", "2", "3", "4", "5", "6", "7", "8", "9">>[d + 1] = c
IsDigit(c) == c \in {"0", "1", "2", "3", "4", "5", "6", "7", "8", "9"}

RECURSIVE Numeral(_)
Numeral(ds) == IF ds = <<>> THEN 0
               ELSE 10 * Numeral(SubSeq(ds, 1, Len(ds) - 1)) + CharValue(ds[Len(ds)])

\* text is [-]d..d.dd; its value in hundredths.
IsTwoDecimals(text) ==
    LET body == IF text # <<>> /\ text[1] = "-" THEN Tail(text) ELSE text IN
    /\ Len(body) >= 4
    /\ body[Len(body) - 2] = "."
    /\ \A i \in Indices(body) : i # Len(body) - 2 => IsDigit(body[i])

Hundredths(text) ==
    LET neg == text[1] = "-"
        body == IF neg THEN Tail(text) ELSE text
        n == Len(body)
        v == 100 * Numeral(SubSeq(body, 1, n - 3)) + Numeral(SubSeq(body, n - 1, n))
    IN  IF neg THEN -v ELSE v

Abs(x) == IF x < 0 THEN -x ELSE x

\* C7: the average is "N/A" for the empty list, and otherwise the mean of
\* leitura (sum / count) to the nearest hundredth written with 2 decimals;
\* leitura 2 and 4 give 3.00.
C7_AverageIsRoundedMean ==
    LET n == Len(leituras)
        sum == Total(leituras, n)
    IN  /\ n = 0 => view.average = NotAvailable
        /\ n > 0 =>
              /\ IsTwoDecimals(view.average)
              /\ 2 * Abs(100 * sum - n * Hundredths(view.average)) <= n
        /\ (n = 2 /\ leituras[1].leitura = 2 /\ leituras[2].leitura = 4)
              => view.average = <<"3", ".", "0", "0">>

\* A mean of 8/3, which rounds up to 2.67.
C7_Witness ==
    /\ Len(leituras) = 3
    /\ Total(leituras, 3) = 8
    /\ view.average = <<"2", ".", "6", "7">>

Pendings == {i \in Indices(requests) : requests[i].st = "pending"}

\* C8: every timer tick starts a new request, whether or not an earlier one
\* is still outstanding.
C8_TickAlwaysFetches ==
    [][now' = now + 1 =>
          /\ Len(requests') = Len(requests) + 1
          /\ requests'[Len(requests')].st = "pending"
          /\ \A i \in Indices(requests) : requests'[i] = requests[i]]_vars

\* Two requests in flight at once, the timer still running.
C8_Witness ==
    /\ Cardinality(Pendings) >= 2
    /\ interval = "active"
    /\ now >= 1

\* C9: after teardown no request is ever started; teardown itself leaves the
\* requests in flight as they are; and a request that ends after teardown
\* still runs its callbacks (error set or cleared, loading flags cleared).
C9_TeardownStopsOnlyTheTimer ==
    [][/\ phase = "unmounted" => Len(requests') = Len(requests)
       /\ (phase = "mounted" /\ phase' = "unmounted") =>
              (requests' = requests /\ interval' = "cleared")
       /\ \A i \in Indices(requests) :
              (phase = "unmounted" /\ requests[i].st = "pending"
                  /\ requests'[i].st # "pending")
              => /\ ~loading' /\ ~initialLoading'
                 /\ requests'[i].st = "ok" => error' = NoError
                 /\ requests'[i].st = "failed" => error' = LoadError]_vars

\* A request in flight at teardown has ended afterwards, and its array is shown.
C9_Witness ==
    /\ phase = "unmounted"
    /\ \E i \in Indices(requests) :
          /\ requests[i].late
          /\ requests[i].st = "ok"
          /\ requests[i].body.items # <<>>
          /\ leituras = requests[i].body.items
    /\ ~loading

\* C10: a failing request changes nothing but the error (set) and the two
\* loading flags (cleared); so the readings are always the initial empty list
\* or the array of one successful response.
C10_FailureKeepsReadings ==
    /\ [][\A i \in Indices(requests) :
             Ends(i, "failed") =>
                 /\ leituras' = leituras
                 /\ lastRefresh' = lastRefresh
                 /\ error' = LoadError
                 /\ ~loading' /\ ~initialLoading'
                 /\ UNCHANGED <<phase, interval, now>>]_vars
    /\ [](leituras = <<>>
            \/ \E i \in Indices(requests) :
                  /\ requests[i].st = "ok"
                  /\ requests[i].body.isArray
                  /\ requests[i].body.items = leituras)

\* A request failed after another had delivered readings at an earlier time.
C10_Witness ==
    /\ leituras # <<>>
    /\ error = LoadError
    /\ lastRefresh < now
    /\ ~loading
    /\ \E i \in Indices(requests) : requests[i].st = "failed"

====
